---- MODULE Spec2Model ----
(***************************************************************************)
(* DistroRun: the build pipeline (runBuild), the rootfs bootstrap          *)
(* (Bootstrap) and the mount lifecycle (Unmount, CleanupRootfs, Cleanup).  *)
(* Further specifications call single functions on their own:             *)
(* downloadMinirootfs, PatchInitramfs, parseApkPackage, generateInitramfs,  *)
(* and run the customInit script as the kernel runs it at boot.            *)
(*                                                                         *)
(* Paths are sequences of one-character strings; Go compares strings byte  *)
(* by byte, so Byte gives each character its ASCII code.                   *)
(***************************************************************************)
EXTENDS Naturals, Integers, Sequences, FiniteSets, TLC

VARIABLES
  pc,          \* position of runBuild: the call it is about to make
  bpc,         \* position inside Bootstrap: index into BootstrapOrder, 0 outside
  cfg,         \* the *Config returned by LoadConfig (NoCfg before)
  rfs,         \* the *Rootfs returned by Bootstrap: "nil" or "handle"
  mounts,      \* the live mount table (/proc/mounts): mount points, oldest first
  hostDev,     \* the entries of the host's /dev
  rootDev,     \* the entries of the rootfs' own dev directory (below any mount)
  steps,       \* runBuild: the calls that returned so far and their outcome
  stages,      \* Bootstrap: the stages run so far and their outcome
  failed,      \* the call whose error reached fatal(), "none" otherwise
  cmds,        \* the commands run inside the chroot so far
  umountCalls, \* one record per call of Unmount
  cleanCalls,  \* one record per call of CleanupRootfs
  apkCache,    \* rootPath/var/cache/apk holds files
  workDirGone, \* Cleanup(true) has removed WorkDir
  apiCalls,    \* calls made by the method-level harness (SpecApi)
  \* downloadMinirootfs called on its own (SpecDownload)
  dlpc,        \* position in downloadMinirootfs: "idle", "index", "tarball", "returned"
  index,       \* what the GET of the release index yields
  filename,    \* the local filename of downloadMinirootfs
  requests,    \* the URLs requested with http.Get so far
  dlRet,       \* the error downloadMinirootfs returned: "pending", "nil" or its text
  \* PatchInitramfs called on its own (SpecPatch)
  initramfs,   \* the file at initramfsPath when PatchInitramfs is called
  patched,     \* one record per call of PatchInitramfs: its result and the file it left
  \* the customInit script run at boot (SpecInit)
  ipc,         \* position in the script: "off", a step, "while", "if", "shell", "switched"
  iVar,        \* the script's variable i
  sr0,         \* /dev/sr0 is a block device
  media,       \* the disc in the drive holds /rootfs.squashfs
  cdMounted,   \* the disc is mounted on /media/cdrom
  trace,       \* the steps of the script run so far
  failures,    \* the steps run so far in which a command failed
  sleeps,      \* the number of sleep 1 run so far
  \* parseApkPackage called on its own (SpecApk)
  line,        \* the line of apk info -v output, as its characters
  parsed,      \* <<>> before the call, then the (name, version) returned
  \* generateInitramfs called on its own (SpecKernel)
  dirEntries,  \* entries, err of os.ReadDir(modulesDir)
  generated,   \* <<>> before the call, then its error and the mkinitfs runs
  \* build runs started side by side on one host (SpecRuns)
  runName,     \* the cfg.Name of each run
  rpc,         \* position of each run: "off", "start", "built", "cleaned", "done"
  runMounts,   \* the mounts the runs made: build name, directory, the run that made it
  runFiles,    \* the working directories that hold files: build name, the run that wrote them
  acted,       \* what a run did to another run's mounts or files
  \* LoadConfig called on its own (SpecConfig)
  configFile,  \* the file at path: whether it reads and parses, and what it parses to
  loaded,      \* <<>> before the call, then the (*Config, error) returned
  \* SetupUsers called on its own (SpecUsers)
  userList,    \* the users passed to SetupUsers, by name
  setup        \* <<>> before the call, then the commands issued and the error

dlVars == <<dlpc, index, filename, requests, dlRet>>
patchVars == <<initramfs, patched>>
initVars == <<ipc, iVar, sr0, media, cdMounted, trace, failures, sleeps>>
apkVars == <<line, parsed>>
kernelVars == <<dirEntries, generated>>
runsVars == <<runName, rpc, runMounts, runFiles, acted>>
configVars == <<configFile, loaded>>
usersVars == <<userList, setup>>
moreVars == <<runsVars, configVars, usersVars>>
unitVars == <<dlVars, patchVars, initVars, apkVars, kernelVars, moreVars>>

vars == <<pc, bpc, cfg, rfs, mounts, hostDev, rootDev, steps, stages, failed,
          cmds, umountCalls, cleanCalls, apkCache, workDirGone, apiCalls,
          unitVars>>

---------------------------------------------------------------------------
(* Bounds of the model *)

\* services and users of a configuration
MaxServices == 1
MaxUsers == 2
\* the method-level harness: mount-table size at start, and calls made
MaxMounts == 3
MaxCalls == 2

---------------------------------------------------------------------------
(* Strings *)

\* the ASCII code of each character the paths use
Byte ==
  ("-" :> 45) @@ ("/" :> 47) @@ ("a" :> 97) @@ ("b" :> 98) @@ ("c" :> 99) @@
  ("d" :> 100) @@ ("e" :> 101) @@ ("f" :> 102) @@ ("i" :> 105) @@
  ("n" :> 110) @@ ("o" :> 111) @@ ("p" :> 112) @@ ("r" :> 114) @@
  ("s" :> 115) @@ ("t" :> 116) @@ ("u" :> 117) @@ ("v" :> 118) @@
  ("x" :> 120) @@ ("y" :> 121) @@
  ("." :> 46) @@ ("0" :> 48) @@ ("1" :> 49) @@ ("3" :> 51) @@ ("6" :> 54) @@
  ("9" :> 57) @@ ("h" :> 104) @@ ("k" :> 107) @@ ("l" :> 108) @@ ("w" :> 119)

\* the characters of each path the model uses; the state holds the paths as
\* strings, the string operations of the code work on their characters
Chars ==
  ("/" :>
     <<"/">>) @@
  ("/t" :>
     <<"/", "t">>) @@
  ("/t/distrorun-x" :>
     <<"/", "t", "/", "d", "i", "s", "t", "r", "o", "r", "u", "n", "-", "x">>) @@
  ("/t/distrorun-x/rootfs" :>
     <<"/", "t", "/", "d", "i", "s", "t", "r", "o", "r", "u", "n", "-", "x", "/", "r", "o", "o", "t", "f", "s">>) @@
  ("/t/distrorun-x/rootfs/" :>
     <<"/", "t", "/", "d", "i", "s", "t", "r", "o", "r", "u", "n", "-", "x", "/", "r", "o", "o", "t", "f", "s", "/">>) @@
  ("/t/distrorun-x/" :>
     <<"/", "t", "/", "d", "i", "s", "t", "r", "o", "r", "u", "n", "-", "x", "/">>) @@
  ("/t/distrorun-x/rootfs/proc" :>
     <<"/", "t", "/", "d", "i", "s", "t", "r", "o", "r", "u", "n", "-", "x", "/", "r", "o", "o", "t", "f", "s", "/", "p", "r", "o", "c">>) @@
  ("/t/distrorun-x/rootfs/dev" :>
     <<"/", "t", "/", "d", "i", "s", "t", "r", "o", "r", "u", "n", "-", "x", "/", "r", "o", "o", "t", "f", "s", "/", "d", "e", "v">>) @@
  ("/t/distrorun-x/rootfs/sys" :>
     <<"/", "t", "/", "d", "i", "s", "t", "r", "o", "r", "u", "n", "-", "x", "/", "r", "o", "o", "t", "f", "s", "/", "s", "y", "s">>) @@
  ("/t/distrorun-x/rootfs/a" :>
     <<"/", "t", "/", "d", "i", "s", "t", "r", "o", "r", "u", "n", "-", "x", "/", "r", "o", "o", "t", "f", "s", "/", "a">>) @@
  ("/t/distrorun-x/rootfs/a/b" :>
     <<"/", "t", "/", "d", "i", "s", "t", "r", "o", "r", "u", "n", "-", "x", "/", "r", "o", "o", "t", "f", "s", "/", "a", "/", "b">>) @@
  ("/t/distrorun-x/rootfs/c" :>
     <<"/", "t", "/", "d", "i", "s", "t", "r", "o", "r", "u", "n", "-", "x", "/", "r", "o", "o", "t", "f", "s", "/", "c">>) @@
  ("/t/distrorun-x/rootfs-o/dev" :>
     <<"/", "t", "/", "d", "i", "s", "t", "r", "o", "r", "u", "n", "-", "x", "/", "r", "o", "o", "t", "f", "s", "-", "o", "/", "d", "e", "v">>)

\* strings.HasPrefix(s, prefix), on characters
SeqHasPrefix(s, prefix) ==
  /\ Len(prefix) <= Len(s)
  /\ \A i \in 1..Len(prefix) : s[i] = prefix[i]

\* Go's s < t on strings, on characters: byte-wise lexicographic
RECURSIVE SeqLess(_, _)
SeqLess(s, t) ==
  IF t = <<>> THEN FALSE
  ELSE IF s = <<>> THEN TRUE
  ELSE IF Byte[Head(s)] # Byte[Head(t)] THEN Byte[Head(s)] < Byte[Head(t)]
  ELSE SeqLess(Tail(s), Tail(t))

HasPrefix(s, prefix) == SeqHasPrefix(Chars[s], Chars[prefix])
StrLess(s, t) == SeqLess(Chars[s], Chars[t])
StrLen(s) == Len(Chars[s])

---------------------------------------------------------------------------
(* The paths of a build *)

\* os.TempDir()
TempDir == "/t"
\* filepath.Join(os.TempDir(), "distrorun-" + name), for the build name "x"
WorkDir == "/t/distrorun-x"
\* r.Path: filepath.Join(workDir, "rootfs")
Path == "/t/distrorun-x/rootfs"
\* r.Path + "/"
PathSlash == "/t/distrorun-x/rootfs/"
WorkDirSlash == "/t/distrorun-x/"

ProcPath == "/t/distrorun-x/rootfs/proc"
DevPath == "/t/distrorun-x/rootfs/dev"
SysPath == "/t/distrorun-x/rootfs/sys"

\* the targets of setupChrootMounts, in the order it mounts them
ChrootTargets == <<ProcPath, DevPath, SysPath>>

\* other mount points a host may hold
PathA == "/t/distrorun-x/rootfs/a"
PathAB == "/t/distrorun-x/rootfs/a/b"
PathC == "/t/distrorun-x/rootfs/c"
\* shares a string prefix with Path without lying under it
SiblingDev == "/t/distrorun-x/rootfs-o/dev"
RootMount == "/"

\* what a host may have mounted, parents first
MountUniverse ==
  <<RootMount, TempDir, Path, SiblingDev, ProcPath, DevPath, SysPath, PathA,
    PathAB, PathC>>

\* the mount table when runBuild starts: a clean host, a host where an earlier
\* run died and left its dev bind mount, and one building a sibling rootfs
HostTables ==
  {<<RootMount>>, <<RootMount, DevPath>>, <<RootMount, SiblingDev>>}

\* the device nodes of the host, and those a minirootfs tarball may ship
HostDevNodes == {"null"}
TarDevNodes == {"console"}

---------------------------------------------------------------------------
(* Unmount: the mount-table scan, the sort and the umount loop *)

\* forgets the separator: a bare string-prefix test
IsTargetNoSlash(mp) == HasPrefix(mp, Path)

\* tests against the working directory instead of the rootfs
IsTargetWorkDir(mp) == HasPrefix(mp, WorkDirSlash)

\* strings.HasPrefix(mp, r.Path+"/")
IsTarget(mp) == HasPrefix(mp, PathSlash)

\* the mount points Unmount collects, in mount-table order
MountPoints(tbl) == SelectSeq(tbl, IsTarget)

\* forgets sort.Reverse: ascending order
UmountLessAscending(a, b) == StrLess(a, b)

\* orders by path length, longest first
UmountLessByLength(a, b) == StrLen(a) > StrLen(b)

\* sort.Reverse(sort.StringSlice(mountPoints)).Less: a sorts before b
UmountLess(a, b) == StrLess(b, a)

RECURSIVE Insert(_, _)
Insert(x, sorted) ==
  IF sorted = <<>> THEN <<x>>
  ELSE IF UmountLess(x, Head(sorted)) THEN <<x>> \o sorted
  ELSE <<Head(sorted)>> \o Insert(x, Tail(sorted))

\* sort.Sort(sort.Reverse(sort.StringSlice(mountPoints)))
RECURSIVE SortMountPoints(_)
SortMountPoints(s) ==
  IF s = <<>> THEN <<>> ELSE Insert(Head(s), SortMountPoints(Tail(s)))

\* umount(8) refuses a mount point that still has a mount below it
Busy(tbl, mp) ==
  \E j \in 1..Len(tbl) : SeqHasPrefix(Chars[tbl[j]], Chars[mp] \o <<"/">>)

\* umount removes the topmost mount at mp: the last entry naming it
RemoveLast(tbl, mp) ==
  LET hits == {j \in 1..Len(tbl) : tbl[j] = mp}
      k == CHOOSE j \in hits : \A h \in hits : h <= j
  IN IF hits = {} THEN tbl
     ELSE SubSeq(tbl, 1, k - 1) \o SubSeq(tbl, k + 1, Len(tbl))

\* gives up at the first umount that fails
KeepGoingUntilError(ok) == ok

\* the loop's reaction to cmd.Run()'s error: a warning, and on to the next
KeepGoing(ok) == TRUE

\* for _, mp := range mountPoints { umount mp }; fails: the attempts that
\* fail for a reason of the host's (open files, a vanished mount)
RECURSIVE UmountFrom(_, _, _, _)
UmountFrom(i, targets, tbl, fails) ==
  IF i > Len(targets) THEN [attempts |-> <<>>, tbl |-> tbl]
  ELSE LET mp == targets[i]
           ok == i \notin fails /\ ~Busy(tbl, mp)
           tbl2 == IF ok THEN RemoveLast(tbl, mp) ELSE tbl
           rest == IF KeepGoing(ok) THEN UmountFrom(i + 1, targets, tbl2, fails)
                   ELSE [attempts |-> <<>>, tbl |-> tbl2]
       IN [attempts |-> <<[mp |-> mp, ok |-> ok]>> \o rest.attempts,
           tbl |-> rest.tbl]

\* Rootfs.Unmount on mount table tbl; readable: os.ReadFile("/proc/mounts")
\* succeeded
UnmountResult(tbl, readable, fails) ==
  IF ~readable THEN [attempts |-> <<>>, tbl |-> tbl]
  ELSE UmountFrom(1, SortMountPoints(MountPoints(tbl)), tbl, fails)

\* the outcomes a call of Unmount may have on the current mount table
UnmountOutcomes ==
  {[readable |-> FALSE, fails |-> {}]} \cup
  {[readable |-> TRUE, fails |-> f] : f \in SUBSET (1..Len(MountPoints(mounts)))}

\* one call of Unmount, whoever makes it
UnmountCall(o) ==
  LET res == UnmountResult(mounts, o.readable, o.fails)
  IN /\ mounts' = res.tbl
     /\ umountCalls' = Append(umountCalls,
          [read |-> o.readable, table |-> mounts, attempts |-> res.attempts,
           after |-> res.tbl, ncmds |-> Len(cmds)])

IsMounted(tbl, mp) == \E j \in 1..Len(tbl) : tbl[j] = mp

\* one call of CleanupRootfs: the apk cache is removed, then every entry that
\* os.ReadDir(devPath) lists is removed; removed: the entries whose
\* os.RemoveAll succeeded. A bind mount at devPath shows the host's /dev.
CleanupRootfsCall(removed) ==
  LET bound == IsMounted(mounts, DevPath)
  IN /\ removed \subseteq (IF bound THEN hostDev ELSE rootDev)
     /\ hostDev' = (IF bound THEN hostDev \ removed ELSE hostDev)
     /\ rootDev' = (IF bound THEN rootDev ELSE rootDev \ removed)
     /\ apkCache' = FALSE
     /\ cleanCalls' = Append(cleanCalls,
          [devBound |-> bound, removed |-> removed, err |-> FALSE,
           hostBefore |-> hostDev, hostAfter |-> hostDev',
           unmountsDone |-> Len(umountCalls)])

---------------------------------------------------------------------------
(* Configurations: what LoadConfig may return *)

NoCfg == [pkgs |-> "none", users |-> <<>>, servicesNil |-> TRUE, services |-> 0,
          sbom |-> FALSE]

UserNames == {"root", "u"}

\* pkgs: whether cfg.Packages is empty. Validate accepts a configuration only
\* with at least one user
UserLists == UNION {[1..n -> UserNames] : n \in 1..MaxUsers}

Configs ==
  {c \in [pkgs : {"none", "some"}, users : UserLists, servicesNil : BOOLEAN,
          services : 0..MaxServices, sbom : BOOLEAN] :
     c.servicesNil => c.services = 0}

\* Config.SBOMEnabled
SBOMEnabled(c) == c.sbom

---------------------------------------------------------------------------
(* runBuild: the order of its calls *)

\* cleans the rootfs before unmounting it
RunBuildOrderCleanFirst ==
  <<"LoadConfig", "CheckHostDeps", "Bootstrap", "InstallPackages", "SetupUsers",
    "EnableServices", "Generate", "MkdirAll", "CleanupRootfs", "Unmount",
    "Setup", "Build">>

\* sets up the bootloader from a rootfs not yet unmounted and cleaned
RunBuildOrderSetupFirst ==
  <<"LoadConfig", "CheckHostDeps", "Bootstrap", "InstallPackages", "SetupUsers",
    "EnableServices", "Generate", "MkdirAll", "Setup", "Unmount",
    "CleanupRootfs", "Build">>

\* unmounts before the users are set up
RunBuildOrderUnmountEarly ==
  <<"LoadConfig", "CheckHostDeps", "Bootstrap", "InstallPackages", "Unmount",
    "SetupUsers", "EnableServices", "Generate", "MkdirAll", "CleanupRootfs",
    "Setup", "Build">>

\* config.LoadConfig, iso.CheckHostDeps, rootfs.Bootstrap, rfs.InstallPackages,
\* rfs.SetupUsers, rfs.EnableServices, sbom.Generate, os.MkdirAll(stagingDir),
\* rfs.Unmount, rfs.CleanupRootfs, bootloader.Setup, iso.Build
RunBuildOrder ==
  <<"LoadConfig", "CheckHostDeps", "Bootstrap", "InstallPackages", "SetupUsers",
    "EnableServices", "Generate", "MkdirAll", "Unmount", "CleanupRootfs",
    "Setup", "Build">>

IndexOf(seq, x) == CHOOSE i \in 1..Len(seq) : seq[i] = x

\* the call after step; after the last one runBuild returns and the deferred
\* rfs.Cleanup(true) runs
After(step) ==
  LET i == IndexOf(RunBuildOrder, step)
  IN IF i < Len(RunBuildOrder) THEN RunBuildOrder[i + 1] ELSE "Cleanup"

\* carries on after an error
OnErrorContinue(step, ok) == After(step)

\* if err != nil { fatal(...) }: os.Exit(1), no deferred call runs
OnError(step, ok) == IF ok THEN After(step) ELSE "exited"

\* a call of runBuild that touches nothing but the position
Plain(step, ok) ==
  /\ pc = step
  /\ steps' = Append(steps, [name |-> step, ok |-> ok])
  /\ pc' = OnError(step, ok)
  /\ failed' = (IF ok THEN failed ELSE step)

---------------------------------------------------------------------------
(* Bootstrap: the order of its stages *)

\* installs the base system before the chroot mounts exist
BootstrapOrderInstallFirst ==
  <<"downloadMinirootfs", "extractTarball", "installBaseSystem",
    "setupChrootMounts", "copyResolv", "configureMkinitfs",
    "generateInitramfs", "PatchInitramfs">>

BootstrapOrder ==
  <<"downloadMinirootfs", "extractTarball", "setupChrootMounts", "copyResolv",
    "installBaseSystem", "configureMkinitfs", "generateInitramfs",
    "PatchInitramfs">>

\* ignores a stage's error and runs the next stage
AfterStageContinue(i, ok) ==
  IF i < Len(BootstrapOrder)
  THEN [pc |-> "Bootstrap", bpc |-> i + 1, rfs |-> "nil", failed |-> "none"]
  ELSE [pc |-> After("Bootstrap"), bpc |-> 0, rfs |-> "handle", failed |-> "none"]

\* if err := stage(); err != nil { return nil, err }, and runBuild's
\* fatal("Bootstrap failed", err); after the last stage: return r, nil
AfterStage(i, ok) ==
  IF ~ok
  THEN [pc |-> "exited", bpc |-> 0, rfs |-> "nil", failed |-> "Bootstrap"]
  ELSE IF i < Len(BootstrapOrder)
  THEN [pc |-> "Bootstrap", bpc |-> i + 1, rfs |-> "nil", failed |-> "none"]
  ELSE [pc |-> After("Bootstrap"), bpc |-> 0, rfs |-> "handle", failed |-> "none"]

AtStage(name) ==
  /\ pc = "Bootstrap"
  /\ bpc \in 1..Len(BootstrapOrder)
  /\ BootstrapOrder[bpc] = name

\* what running a stage does to the position; Bootstrap's return ends the
\* call runBuild made
Stage(name, ok) ==
  LET n == AfterStage(bpc, ok)
  IN /\ AtStage(name)
     /\ stages' = Append(stages, [name |-> name, ok |-> ok])
     /\ steps' = (IF n.pc = "Bootstrap" THEN steps
                  ELSE Append(steps, [name |-> "Bootstrap", ok |-> n.rfs = "handle"]))
     /\ pc' = n.pc
     /\ bpc' = n.bpc
     /\ rfs' = n.rfs
     /\ failed' = n.failed

Cmd(c, a) == [cmd |-> c, arg |-> a]

---------------------------------------------------------------------------
(* The initial state: runBuild is about to load the configuration *)

RECURSIVE Pick(_, _, _)
Pick(u, S, i) ==
  IF i > Len(u) THEN <<>>
  ELSE (IF i \in S THEN <<u[i]>> ELSE <<>>) \o Pick(u, S, i + 1)

\* the mount tables holding at most max entries of u, in u's order
Tables(u, max) ==
  {Pick(u, S, 1) : S \in {T \in SUBSET (1..Len(u)) : Cardinality(T) <= max}}

\* downloadMinirootfs is not running
DownloadIdle ==
  /\ dlpc = "idle"
  /\ index = [at |-> "ok", releases |-> <<>>]
  /\ filename = ""
  /\ requests = <<>>
  /\ dlRet = "pending"

\* PatchInitramfs is not running
PatchIdle ==
  /\ initramfs = [form |-> "cpio", complete |-> TRUE, entries |-> <<>>]
  /\ patched = <<>>

\* the init script is not running
ScriptIdle ==
  /\ ipc = "off"
  /\ iVar = 0
  /\ sr0 = FALSE
  /\ media = FALSE
  /\ cdMounted = FALSE
  /\ trace = <<>>
  /\ failures = {}
  /\ sleeps = 0

\* parseApkPackage and generateInitramfs are not running
ParseIdle ==
  /\ line = <<>>
  /\ parsed = <<>>

KernelIdle ==
  /\ dirEntries = [err |-> FALSE, list |-> <<>>]
  /\ generated = <<>>

\* no run beside the one modelled, LoadConfig and SetupUsers not running
RunsIdle ==
  /\ runName = <<>>
  /\ rpc = <<>>
  /\ runMounts = <<>>
  /\ runFiles = {}
  /\ acted = {}

ConfigIdle ==
  /\ configFile = [at |-> "read", cfg |-> <<>>]
  /\ loaded = <<>>

UsersIdle ==
  /\ userList = <<>>
  /\ setup = <<>>

MoreIdle ==
  /\ RunsIdle
  /\ ConfigIdle
  /\ UsersIdle

\* none of the functions called on their own is running
FnIdle ==
  /\ DownloadIdle
  /\ PatchIdle
  /\ ScriptIdle
  /\ ParseIdle
  /\ KernelIdle

fnVars == <<dlVars, patchVars, initVars, apkVars, kernelVars>>

UnitIdle ==
  /\ FnIdle
  /\ MoreIdle

CoreCommon ==
  /\ bpc = 0
  /\ cfg = NoCfg
  /\ hostDev = HostDevNodes
  /\ steps = <<>>
  /\ stages = <<>>
  /\ failed = "none"
  /\ cmds = <<>>
  /\ umountCalls = <<>>
  /\ cleanCalls = <<>>
  /\ workDirGone = FALSE
  /\ apiCalls = 0

InitCommon ==
  /\ UnitIdle
  /\ CoreCommon

\* no build is running: the state of a function called on its own
CoreIdle ==
  /\ CoreCommon
  /\ pc = "unit"
  /\ rfs = "handle"
  /\ mounts = <<RootMount>>
  /\ rootDev = {}
  /\ apkCache = FALSE

coreVars == <<pc, bpc, cfg, rfs, mounts, hostDev, rootDev, steps, stages, failed,
              cmds, umountCalls, cleanCalls, apkCache, workDirGone, apiCalls>>

Init ==
  /\ InitCommon
  /\ pc = "LoadConfig"
  /\ rfs = "nil"
  /\ mounts \in HostTables
  /\ rootDev = {}
  /\ apkCache = FALSE

---------------------------------------------------------------------------
(* runBuild, call by call *)

fsVars == <<mounts, hostDev, rootDev, apkCache, workDirGone>>
logVars == <<cmds, umountCalls, cleanCalls>>

\* cfg, err := config.LoadConfig(configPath)
LoadConfig ==
  /\ \/ \E c \in Configs : Plain("LoadConfig", TRUE) /\ cfg' = c
     \/ Plain("LoadConfig", FALSE) /\ cfg' = cfg
  /\ UNCHANGED <<bpc, rfs, stages, fsVars, logVars, apiCalls, unitVars>>

\* iso.CheckHostDeps()
CheckHostDeps ==
  /\ \E ok \in BOOLEAN : Plain("CheckHostDeps", ok)
  /\ UNCHANGED <<bpc, cfg, rfs, stages, fsVars, logVars, apiCalls, unitVars>>

\* rootfs.Bootstrap(cfg.Name) up to its first stage: os.MkdirAll(rootfsPath)
BootstrapEnter ==
  /\ pc = "Bootstrap"
  /\ bpc = 0
  /\ \E ok \in BOOLEAN :
       /\ steps' = (IF ok THEN steps
                    ELSE Append(steps, [name |-> "Bootstrap", ok |-> FALSE]))
       /\ pc' = (IF ok THEN "Bootstrap" ELSE "exited")
       /\ bpc' = (IF ok THEN 1 ELSE 0)
       /\ failed' = (IF ok THEN failed ELSE "Bootstrap")
  /\ UNCHANGED <<cfg, rfs, stages, fsVars, logVars, apiCalls, unitVars>>

downloadMinirootfs ==
  /\ \E ok \in BOOLEAN : Stage("downloadMinirootfs", ok)
  /\ UNCHANGED <<cfg, fsVars, logVars, apiCalls, unitVars>>

\* tar xzf tarball -C r.Path: the tarball's dev entries land in the rootfs
extractTarball ==
  /\ \E ok \in BOOLEAN : Stage("extractTarball", ok)
  /\ rootDev' = TarDevNodes
  /\ UNCHANGED <<cfg, mounts, hostDev, apkCache, workDirGone, logVars,
                 apiCalls, unitVars>>

\* mounts proc, dev, sys in that order; k: the mounts made before the first
\* os.MkdirAll or mount that fails (3: none fails)
setupChrootMounts ==
  /\ \E k \in 0..Len(ChrootTargets) :
       /\ Stage("setupChrootMounts", k = Len(ChrootTargets))
       /\ mounts' = mounts \o SubSeq(ChrootTargets, 1, k)
  /\ UNCHANGED <<cfg, hostDev, rootDev, apkCache, workDirGone, logVars,
                 apiCalls, unitVars>>

copyResolv ==
  /\ \E ok \in BOOLEAN : Stage("copyResolv", ok)
  /\ UNCHANGED <<cfg, fsVars, logVars, apiCalls, unitVars>>

\* writes the repositories file, then chroot apk update, then chroot apk add
\* of the base packages; at: where it fails
installBaseSystem ==
  /\ \E at \in {"write", "update", "add", "ok"} :
       /\ Stage("installBaseSystem", at = "ok")
       /\ cmds' = cmds \o
            (CASE at = "write" -> <<>>
               [] at = "update" -> <<Cmd("apk update", "")>>
               [] OTHER -> <<Cmd("apk update", ""), Cmd("apk add", "base")>>)
       /\ apkCache' = (apkCache \/ at \in {"add", "ok"})
  /\ UNCHANGED <<cfg, mounts, hostDev, rootDev, workDirGone,
                 umountCalls, cleanCalls, apiCalls, unitVars>>

configureMkinitfs ==
  /\ \E ok \in BOOLEAN : Stage("configureMkinitfs", ok)
  /\ UNCHANGED <<cfg, fsVars, logVars, apiCalls, unitVars>>

\* reads lib/modules, picks the kernel version, runs chroot mkinitfs; at: where
\* it fails ("modules": unreadable directory or no entry)
generateInitramfs ==
  /\ \E at \in {"modules", "mkinitfs", "ok"} :
       /\ Stage("generateInitramfs", at = "ok")
       /\ cmds' = (IF at = "modules" THEN cmds
                   ELSE Append(cmds, Cmd("mkinitfs", "")))
  /\ UNCHANGED <<cfg, fsVars, umountCalls, cleanCalls, apiCalls, unitVars>>

PatchInitramfs ==
  /\ \E ok \in BOOLEAN : Stage("PatchInitramfs", ok)
  /\ UNCHANGED <<cfg, fsVars, logVars, apiCalls, unitVars>>

\* rfs.InstallPackages(cfg.Packages): no command for an empty list
InstallPackages ==
  /\ \E ok \in (IF cfg.pkgs = "none" THEN {TRUE} ELSE BOOLEAN) :
       Plain("InstallPackages", ok)
  /\ cmds' = (IF cfg.pkgs = "none" THEN cmds ELSE Append(cmds, Cmd("apk add", "user")))
  /\ UNCHANGED <<bpc, cfg, rfs, stages, fsVars, umountCalls, cleanCalls, apiCalls, unitVars>>

\* creates an account for root as well
RECURSIVE UserCmdsRootToo(_)
UserCmdsRootToo(users) ==
  IF users = <<>> THEN <<>>
  ELSE LET u == Head(users)
       IN <<Cmd("adduser", u), Cmd("chpasswd", u)>> \o UserCmdsRootToo(Tail(users))

\* the commands SetupUsers issues when none fails
RECURSIVE UserCmds(_)
UserCmds(users) ==
  IF users = <<>> THEN <<>>
  ELSE LET u == Head(users)
       IN (IF u # "root" THEN <<Cmd("adduser", u)>> ELSE <<>>)
          \o <<Cmd("chpasswd", u)>> \o UserCmds(Tail(users))

\* rfs.SetupUsers(cfg.Users); f: the command that fails (0: none)
SetupUsers ==
  /\ LET all == UserCmds(cfg.users)
     IN \E f \in 0..Len(all) :
          /\ Plain("SetupUsers", f = 0)
          /\ cmds' = cmds \o (IF f = 0 THEN all ELSE SubSeq(all, 1, f))
  /\ UNCHANGED <<bpc, cfg, rfs, stages, fsVars, umountCalls, cleanCalls, apiCalls, unitVars>>

\* if cfg.Services != nil { rfs.EnableServices(cfg.Services.Enable) }: one
\* chroot rc-update per service; f: the one that fails (0: none)
EnableServices ==
  /\ pc = "EnableServices"
  /\ IF cfg.servicesNil
     THEN /\ pc' = After("EnableServices")
          /\ UNCHANGED <<steps, failed, cmds>>
     ELSE \E f \in 0..cfg.services :
            /\ Plain("EnableServices", f = 0)
            /\ cmds' = cmds \o
                 [i \in 1..(IF f = 0 THEN cfg.services ELSE f) |->
                    Cmd("rc-update", "svc")]
  /\ UNCHANGED <<bpc, cfg, rfs, stages, fsVars, umountCalls, cleanCalls, apiCalls, unitVars>>

\* if cfg.SBOMEnabled() { sbom.Generate(...) }: chroot apk info -v, then the
\* document is written; at: where it fails
Generate ==
  /\ pc = "Generate"
  /\ IF ~SBOMEnabled(cfg)
     THEN /\ pc' = After("Generate")
          /\ UNCHANGED <<steps, failed, cmds>>
     ELSE \E at \in {"query", "write", "ok"} :
            /\ Plain("Generate", at = "ok")
            /\ cmds' = Append(cmds, Cmd("apk info", ""))
  /\ UNCHANGED <<bpc, cfg, rfs, stages, fsVars, umountCalls, cleanCalls, apiCalls, unitVars>>

\* os.MkdirAll(stagingDir, 0755)
MkdirAll ==
  /\ \E ok \in BOOLEAN : Plain("MkdirAll", ok)
  /\ UNCHANGED <<bpc, cfg, rfs, stages, fsVars, logVars, apiCalls, unitVars>>

\* rfs.Unmount(): it returns nothing, runBuild goes on whatever happened
Unmount ==
  /\ Plain("Unmount", TRUE)
  /\ \E o \in UnmountOutcomes : UnmountCall(o)
  /\ UNCHANGED <<bpc, cfg, rfs, stages, hostDev, rootDev, apkCache, workDirGone,
                 cmds, cleanCalls, apiCalls, unitVars>>

\* rfs.CleanupRootfs(): its result is dropped
CleanupRootfs ==
  /\ Plain("CleanupRootfs", TRUE)
  /\ \E removed \in SUBSET (hostDev \cup rootDev) : CleanupRootfsCall(removed)
  /\ UNCHANGED <<bpc, cfg, rfs, stages, mounts, workDirGone, cmds, umountCalls,
                 apiCalls, unitVars>>

\* bootloader.Setup(rfs.Path, stagingDir)
Setup ==
  /\ \E ok \in BOOLEAN : Plain("Setup", ok)
  /\ UNCHANGED <<bpc, cfg, rfs, stages, fsVars, logVars, apiCalls, unitVars>>

\* iso.Build(rfs.Path, stagingDir, outputPath)
Build ==
  /\ \E ok \in BOOLEAN : Plain("Build", ok)
  /\ UNCHANGED <<bpc, cfg, rfs, stages, fsVars, logVars, apiCalls, unitVars>>

\* a mount at or below WorkDir is active
MountedUnderWorkDir(tbl) ==
  \E j \in 1..Len(tbl) : HasPrefix(tbl[j], WorkDirSlash)

\* runBuild returns: the deferred rfs.Cleanup(true) unmounts, then
\* os.RemoveAll(r.WorkDir) removes what it can reach below WorkDir: through a
\* bind mount that is still there it reaches the host's device nodes
\* (removed: those it managed to delete), and an active mount point itself
\* cannot be removed
Cleanup ==
  /\ pc = "Cleanup"
  /\ pc' = "done"
  /\ steps' = Append(steps, [name |-> "Cleanup", ok |-> TRUE])
  /\ \E o \in UnmountOutcomes : UnmountCall(o)
  /\ \E removed \in SUBSET hostDev :
       /\ removed # {} => IsMounted(mounts', DevPath)
       /\ hostDev' = hostDev \ removed
  /\ workDirGone' = ~MountedUnderWorkDir(mounts')
  /\ UNCHANGED <<bpc, cfg, rfs, stages, failed, rootDev, apkCache, cmds,
                 cleanCalls, apiCalls, unitVars>>

Next ==
  \/ LoadConfig
  \/ CheckHostDeps
  \/ BootstrapEnter
  \/ downloadMinirootfs
  \/ extractTarball
  \/ setupChrootMounts
  \/ copyResolv
  \/ installBaseSystem
  \/ configureMkinitfs
  \/ generateInitramfs
  \/ PatchInitramfs
  \/ InstallPackages
  \/ SetupUsers
  \/ EnableServices
  \/ Generate
  \/ MkdirAll
  \/ Unmount
  \/ CleanupRootfs
  \/ Setup
  \/ Build
  \/ Cleanup

Spec == Init /\ [][Next]_vars

---------------------------------------------------------------------------
(* The methods of a Rootfs handle called on their own, as a test calls them:
   any mount table, then calls of Unmount with mounts made in between *)

InitApi ==
  /\ InitCommon
  /\ pc = "api"
  /\ rfs = "handle"
  /\ mounts \in Tables(MountUniverse, MaxMounts)
  /\ rootDev = TarDevNodes
  /\ apkCache = FALSE

apiFrame == <<pc, bpc, cfg, rfs, hostDev, rootDev, steps, stages, failed, cmds,
              cleanCalls, apkCache, workDirGone, unitVars>>

\* r.Unmount()
ApiUnmount ==
  /\ pc = "api"
  /\ apiCalls < MaxCalls
  /\ apiCalls' = apiCalls + 1
  /\ \E o \in UnmountOutcomes : UnmountCall(o)
  /\ UNCHANGED apiFrame

\* the host mounts something between two calls (a call still follows)
ApiMount ==
  /\ pc = "api"
  /\ apiCalls + 1 < MaxCalls
  /\ apiCalls' = apiCalls + 1
  /\ \E i \in 1..Len(ChrootTargets) : mounts' = Append(mounts, ChrootTargets[i])
  /\ UNCHANGED <<apiFrame, umountCalls>>

NextApi ==
  \/ ApiUnmount
  \/ ApiMount

SpecApi == InitApi /\ [][NextApi]_vars

---------------------------------------------------------------------------
(* downloadMinirootfs called on its own: any release index, any outcome of
   the two requests *)

\* the records of latest-releases.yaml: a record that names no file
\* unmarshals with File == ""
MaxReleases == 2
Flavors == {"alpine-minirootfs", "alpine-standard"}
Files == {"", "minirootfs-3.19.tar.gz", "standard-3.19.iso"}
Releases == [Flavor : Flavors, File : Files]
ReleaseLists == UNION {[1..n -> Releases] : n \in 0..MaxReleases}

\* what the GET of the index yields; at: where it fails (http.Get, the status
\* code, io.ReadAll, yaml.Unmarshal)
IndexResponses ==
  {[at |-> a, releases |-> <<>>] : a \in {"transport", "status", "read", "parse"}}
  \cup {[at |-> "ok", releases |-> rs] : rs \in ReleaseLists}

\* URLs, as the strings concatenated to make them
BaseURL == <<"https://dl-cdn.alpinelinux.org/alpine/latest-stable/releases/x86_64">>
ReleasesURL == BaseURL \o <<"/latest-releases.yaml">>
TarballURL(file) == BaseURL \o <<"/">> \o <<file>>

\* the loop over the releases without its break: the last match wins
RECURSIVE FindLastMinirootfs(_)
FindLastMinirootfs(rs) ==
  IF rs = <<>> THEN ""
  ELSE IF rs[Len(rs)].Flavor = "alpine-minirootfs" THEN rs[Len(rs)].File
  ELSE FindLastMinirootfs(SubSeq(rs, 1, Len(rs) - 1))

\* for _, rel := range releases { if rel.Flavor == ... { filename = rel.File; break } }
RECURSIVE FindMinirootfs(_)
FindMinirootfs(rs) ==
  IF rs = <<>> THEN ""
  ELSE IF Head(rs).Flavor = "alpine-minirootfs" THEN Head(rs).File
  ELSE FindMinirootfs(Tail(rs))

\* the text of the error returned when the index is not obtained
IndexError(at) ==
  CASE at = "transport" -> "fetching releases index"
    [] at = "status" -> "fetching releases index: HTTP"
    [] at = "read" -> "reading releases index"
    [] at = "parse" -> "parsing releases index"

TarballError(at) ==
  CASE at = "transport" -> "downloading minirootfs"
    [] at = "status" -> "downloading minirootfs: HTTP"
    [] at = "create" -> "creating tarball file"
    [] at = "write" -> "writing tarball"
    [] at = "ok" -> "nil"

InitDownload ==
  /\ CoreIdle
  /\ MoreIdle
  /\ PatchIdle
  /\ ScriptIdle
  /\ ParseIdle
  /\ KernelIdle
  /\ dlpc = "index"
  /\ index \in IndexResponses
  /\ filename = ""
  /\ requests = <<>>
  /\ dlRet = "pending"

\* from the entry to the test of filename: the index is requested, read,
\* parsed and searched
FetchIndex ==
  /\ dlpc = "index"
  /\ requests' = Append(requests, ReleasesURL)
  /\ IF index.at # "ok"
     THEN /\ dlRet' = IndexError(index.at)
          /\ dlpc' = "returned"
          /\ filename' = filename
     ELSE /\ filename' = FindMinirootfs(index.releases)
          /\ dlpc' = (IF filename' = "" THEN "returned" ELSE "tarball")
          /\ dlRet' = (IF filename' = "" THEN "minirootfs entry not found"
                       ELSE dlRet)
  /\ UNCHANGED <<coreVars, moreVars, index, patchVars, initVars, apkVars, kernelVars>>

\* from the GET of the tarball to the return; at: where it fails
FetchTarball ==
  /\ dlpc = "tarball"
  /\ requests' = Append(requests, TarballURL(filename))
  /\ \E at \in {"transport", "status", "create", "write", "ok"} :
       dlRet' = TarballError(at)
  /\ dlpc' = "returned"
  /\ UNCHANGED <<coreVars, moreVars, index, filename, patchVars, initVars, apkVars,
                 kernelVars>>

NextDownload ==
  \/ FetchIndex
  \/ FetchTarball

SpecDownload == InitDownload /\ [][NextDownload]_vars

---------------------------------------------------------------------------
(* PatchInitramfs called on its own: any small initramfs, compressed or not,
   any step failing; called again on an identical file *)

MaxRuns == 2

\* the entries an archive may hold, by path relative to the archive's root
\* ("./a" of find and "a" are the same path)
Paths == {"init", "a", "b"}
Absent == [kind |-> "absent", mode |-> "", data |-> ""]
File(mode, data) == [kind |-> "file", mode |-> mode, data |-> data]
Symlink(mode, target) == [kind |-> "symlink", mode |-> mode, data |-> target]
RootEntry == [path |-> ".", kind |-> "dir", mode |-> "0755", data |-> ""]
Ent(path, e) == [path |-> path, kind |-> e.kind, mode |-> e.mode, data |-> e.data]

\* what the input may hold at each path
InitChoices == {Absent, File("0644", "old init"), File("0755", "old init"),
                Symlink("0777", "a")}
AChoices == {Absent, File("0644", "x")}
BChoices == {Absent, Symlink("0755", "a")}

Present(path, e) == IF e.kind = "absent" THEN <<>> ELSE <<Ent(path, e)>>

\* the files PatchInitramfs may find at initramfsPath: a cpio archive, gzip
\* compressed or not, with or without an entry for its root directory
InputFiles ==
  {[form |-> f, complete |-> TRUE,
    entries |-> (IF root THEN <<RootEntry>> ELSE <<>>) \o Present("init", i)
                \o Present("a", a) \o Present("b", b)] :
     f \in {"gzip", "cpio"}, root \in BOOLEAN, i \in InitChoices,
     a \in AChoices, b \in BChoices}

\* gzip.NewReader succeeds on a gzip header only
IsGzip(f) == f.form = "gzip"

\* the cpio archive read from cpioPath: the decompressed copy of a gzip file,
\* the file itself otherwise
CpioOf(f) == f.entries

EmptyTree == [p \in Paths |-> Absent]

\* cpio -idm into the empty extractDir: each entry is created with its mode
RECURSIVE Extract(_, _)
Extract(entries, tree) ==
  IF entries = <<>> THEN tree
  ELSE LET e == Head(entries)
       IN Extract(Tail(entries),
            IF e.path = "." THEN tree
            ELSE [tree EXCEPT ![e.path] =
                    [kind |-> e.kind, mode |-> e.mode, data |-> e.data]])

\* os.WriteFile(initPath, customInit, 0755): opens with O_WRONLY|O_CREATE|
\* O_TRUNC, so the mode is given to a file it creates only, and a symlink at
\* initPath is followed to its target
WriteFile(tree, path) ==
  LET e == tree[path]
      t == IF e.kind = "symlink" THEN e.data ELSE path
  IN IF tree[t].kind = "absent"
     THEN [tree EXCEPT ![t] = File("0755", "customInit")]
     ELSE [tree EXCEPT ![t].data = "customInit"]

\* the orders in which find . may list extractDir: the directory first, then
\* its entries in the order readdir yields them, which nothing fixes
Orders(tree) ==
  LET present == {p \in Paths : tree[p].kind # "absent"}
  IN {o \in [1..Cardinality(present) -> present] :
        \A i, j \in DOMAIN o : i # j => o[i] # o[j]}

\* find . | cpio -o -H newc
Repack(tree, o) == <<RootEntry>> \o [i \in 1..Len(o) |-> Ent(o[i], tree[o[i]])]

\* the steps that can fail; decompression is skipped for an uncompressed file
PatchSteps(f) ==
  {"setup", "extract", "overwrite", "repack", "create", "compress", "finish",
   "close", "ok"} \cup (IF IsGzip(f) THEN {"decompress"} ELSE {})

\* the error PatchInitramfs returns when the step at fails: the results of
\* gzWriter.Close() and outFile.Close() are dropped
PatchError(at) ==
  CASE at = "setup" -> "reading initramfs"
    [] at = "decompress" -> "decompressing initramfs"
    [] at = "extract" -> "extracting cpio"
    [] at = "overwrite" -> "writing custom init"
    [] at = "repack" -> "creating new cpio"
    [] at = "create" -> "creating new initramfs"
    [] at = "compress" -> "compressing initramfs"
    [] OTHER -> "nil"

\* the file a gzip writer leaves that was not finished: not a gzip stream
Unfinished == [form |-> "gzip", complete |-> FALSE, entries |-> <<>>]

\* the file at initramfsPath after the call: untouched until os.Create
\* truncates it
PatchedFile(f, at, o) ==
  IF at \in {"setup", "decompress", "extract", "overwrite", "repack", "create"}
  THEN f
  ELSE IF at \in {"compress", "finish", "close"} THEN Unfinished
  ELSE [form |-> "gzip", complete |-> TRUE,
        entries |-> Repack(WriteFile(Extract(CpioOf(f), EmptyTree), "init"), o)]

InitPatch ==
  /\ CoreIdle
  /\ MoreIdle
  /\ DownloadIdle
  /\ ScriptIdle
  /\ ParseIdle
  /\ KernelIdle
  /\ initramfs \in InputFiles
  /\ patched = <<>>

\* r.PatchInitramfs() on the file initramfs; at: the step that fails
PatchCall ==
  /\ Len(patched) < MaxRuns
  /\ \E at \in PatchSteps(initramfs) :
       \E o \in Orders(WriteFile(Extract(CpioOf(initramfs), EmptyTree), "init")) :
         patched' = Append(patched,
           [at |-> at, ret |-> PatchError(at),
            file |-> PatchedFile(initramfs, at, o)])
  /\ UNCHANGED <<coreVars, moreVars, dlVars, initramfs, initVars, apkVars, kernelVars>>

NextPatch ==
  \/ PatchCall

SpecPatch == InitPatch /\ [][NextPatch]_vars

---------------------------------------------------------------------------
(* The customInit script, run by the kernel as /init. It has no set -e: a
   command that fails is passed over, only the two tests branch. *)

\* while ... [ $i -lt 10 ]
PollLimit == 10

\* the commands of the script, in the order of its text
ScriptOrderSwitchFirst ==
  <<"InstallToolchain", "MountVirtualFS", "LoadDrivers", "SwitchRoot",
    "WaitForOpticalDevice", "MountOpticalMedia", "LocateSquashImage",
    "MountSquashReadOnly", "CreateWritableOverlay", "MountOverlayAsNewRoot",
    "MigrateVirtualMounts">>

ScriptOrder ==
  <<"InstallToolchain", "MountVirtualFS", "LoadDrivers",
    "WaitForOpticalDevice", "MountOpticalMedia", "LocateSquashImage",
    "MountSquashReadOnly", "CreateWritableOverlay", "MountOverlayAsNewRoot",
    "MigrateVirtualMounts", "SwitchRoot">>

\* the command after step; exec replaces the shell, nothing follows it
NextStep(step) ==
  LET k == IndexOf(ScriptOrder, step)
  IN IF k < Len(ScriptOrder) /\ step # "SwitchRoot"
     THEN ScriptOrder[k + 1] ELSE "switched"

\* the loop that polls whatever the device does
KeepPollingBlind(present, n) == n < PollLimit

\* [ ! -b /dev/sr0 ] && [ $i -lt 10 ]
KeepPolling(present, n) == ~present /\ n < PollLimit

\* [ -f /media/cdrom/rootfs.squashfs ]: /media/cdrom is an empty directory of
\* the initramfs unless the disc is mounted on it
SquashFound(mounted, holds) == mounted /\ holds

InitScript ==
  /\ CoreIdle
  /\ MoreIdle
  /\ DownloadIdle
  /\ PatchIdle
  /\ ParseIdle
  /\ KernelIdle
  /\ ipc = ScriptOrder[1]
  /\ iVar = 0
  /\ sr0 \in BOOLEAN
  /\ media \in BOOLEAN
  /\ cdMounted = FALSE
  /\ trace = <<>>
  /\ failures = {}
  /\ sleeps = 0

scriptFrame == <<coreVars, moreVars, dlVars, patchVars, apkVars, kernelVars, sr0, media>>

\* a step whose commands' results are not tested
Commands(step) ==
  /\ ipc = step
  /\ trace' = Append(trace, step)
  /\ \E ok \in BOOLEAN :
       failures' = (IF ok THEN failures ELSE failures \cup {step})
  /\ ipc' = NextStep(step)

\* /bin/busybox --install -s
InstallToolchain ==
  /\ Commands("InstallToolchain")
  /\ UNCHANGED <<scriptFrame, iVar, cdMounted, sleeps>>

\* mount devtmpfs, proc, sysfs
MountVirtualFS ==
  /\ Commands("MountVirtualFS")
  /\ UNCHANGED <<scriptFrame, iVar, cdMounted, sleeps>>

\* for mod in ...; do modprobe $mod 2>/dev/null; done
LoadDrivers ==
  /\ Commands("LoadDrivers")
  /\ UNCHANGED <<scriptFrame, iVar, cdMounted, sleeps>>

\* echo "Waiting for CD-ROM..."; i=0
WaitForOpticalDevice ==
  /\ ipc = "WaitForOpticalDevice"
  /\ trace' = Append(trace, "WaitForOpticalDevice")
  /\ iVar' = 0
  /\ ipc' = "while"
  /\ UNCHANGED <<scriptFrame, cdMounted, failures, sleeps>>

\* one evaluation of the while condition, and the body when it holds
Poll ==
  /\ ipc = "while"
  /\ IF KeepPolling(sr0, iVar)
     THEN /\ sleeps' = sleeps + 1
          /\ iVar' = iVar + 1
          /\ ipc' = "while"
     ELSE /\ ipc' = "if"
          /\ UNCHANGED <<iVar, sleeps>>
  /\ UNCHANGED <<scriptFrame, cdMounted, trace, failures>>

\* if [ ! -b /dev/sr0 ]; then ... exec /bin/sh; fi
CheckDevice ==
  /\ ipc = "if"
  /\ ipc' = (IF ~sr0 THEN "shell" ELSE NextStep("WaitForOpticalDevice"))
  /\ UNCHANGED <<scriptFrame, iVar, cdMounted, trace, failures, sleeps>>

\* mkdir -p /media/cdrom; mount -t iso9660 -o ro /dev/sr0 /media/cdrom
MountOpticalMedia ==
  /\ Commands("MountOpticalMedia")
  /\ cdMounted' = ("MountOpticalMedia" \notin failures')
  /\ UNCHANGED <<scriptFrame, iVar, sleeps>>

\* if [ ! -f /media/cdrom/rootfs.squashfs ]; then ... exec /bin/sh; fi
LocateSquashImage ==
  /\ ipc = "LocateSquashImage"
  /\ trace' = Append(trace, "LocateSquashImage")
  /\ ipc' = (IF SquashFound(cdMounted, media) THEN NextStep("LocateSquashImage")
             ELSE "shell")
  /\ UNCHANGED <<scriptFrame, iVar, cdMounted, failures, sleeps>>

\* mkdir -p /lower; mount -t squashfs -o ro,loop ... /lower
MountSquashReadOnly ==
  /\ Commands("MountSquashReadOnly")
  /\ UNCHANGED <<scriptFrame, iVar, cdMounted, sleeps>>

\* mkdir -p /upper; mount -t tmpfs tmpfs /upper; mkdir -p /upper/upper /upper/work
CreateWritableOverlay ==
  /\ Commands("CreateWritableOverlay")
  /\ UNCHANGED <<scriptFrame, iVar, cdMounted, sleeps>>

\* mkdir -p /sysroot; mount -t overlay overlay -o ... /sysroot
MountOverlayAsNewRoot ==
  /\ Commands("MountOverlayAsNewRoot")
  /\ UNCHANGED <<scriptFrame, iVar, cdMounted, sleeps>>

\* mount --move /dev, /proc, /sys into /sysroot
MigrateVirtualMounts ==
  /\ Commands("MigrateVirtualMounts")
  /\ UNCHANGED <<scriptFrame, iVar, cdMounted, sleeps>>

\* exec switch_root /sysroot /sbin/init
SwitchRoot ==
  /\ Commands("SwitchRoot")
  /\ UNCHANGED <<scriptFrame, iVar, cdMounted, sleeps>>

\* the kernel finds the drive while the script runs (a drive, once found,
\* stays)
DeviceAppears ==
  /\ ipc \notin {"off", "shell", "switched"}
  /\ ~sr0
  /\ sr0' = TRUE
  /\ UNCHANGED <<coreVars, moreVars, dlVars, patchVars, apkVars, kernelVars, ipc, iVar,
                 media, cdMounted, trace, failures, sleeps>>

ScriptStep ==
  \/ InstallToolchain
  \/ MountVirtualFS
  \/ LoadDrivers
  \/ WaitForOpticalDevice
  \/ Poll
  \/ CheckDevice
  \/ MountOpticalMedia
  \/ LocateSquashImage
  \/ MountSquashReadOnly
  \/ CreateWritableOverlay
  \/ MountOverlayAsNewRoot
  \/ MigrateVirtualMounts
  \/ SwitchRoot

NextInit ==
  \/ ScriptStep
  \/ DeviceAppears

SpecInit == InitScript /\ [][NextInit]_vars

\* the shell runs the script on: a step that can be taken is taken
SpecInitLive == SpecInit /\ WF_vars(ScriptStep)

---------------------------------------------------------------------------
(* parseApkPackage called on its own, on any short line *)

MaxLen == 4

\* the characters of the lines tried: a hyphen, a digit, a letter
Alphabet == {"-", "1", "a"}

\* the lines the specification gives as examples
Busybox == <<"b", "u", "s", "y", "b", "o", "x", "-", "1", ".", "3", "6", ".",
             "1", "-", "r", "1">>
NoVersionHere == <<"n", "o", "-", "v", "e", "r", "s", "i", "o", "n", "-", "h",
                   "e", "r", "e">>

Lines ==
  UNION {[1..n -> Alphabet] : n \in 0..MaxLen} \cup {Busybox, NoVersionHere}

\* the string "unknown"
Unknown == <<"u", "n", "k", "n", "o", "w", "n">>

\* s[i] == '-' && i+1 < len(s) && s[i+1] >= '0' && s[i+1] <= '9', at the
\* 1-based position k
SplitsAt(s, k) ==
  /\ s[k] = "-"
  /\ k + 1 <= Len(s)
  /\ Byte[s[k + 1]] >= Byte["0"]
  /\ Byte[s[k + 1]] <= Byte["9"]

Split(s, k) == [name |-> SubSeq(s, 1, k - 1), version |-> SubSeq(s, k + 1, Len(s))]

\* the scan run from the front: the first hyphen before a digit
RECURSIVE ScanUp(_, _)
ScanUp(s, k) ==
  IF k > Len(s) THEN [name |-> s, version |-> Unknown]
  ELSE IF SplitsAt(s, k) THEN Split(s, k)
  ELSE ScanUp(s, k + 1)

parseApkPackageFirst(s) == ScanUp(s, 1)

\* for i := len(s) - 1; i >= 0; i-- { ... }
RECURSIVE ScanDown(_, _)
ScanDown(s, k) ==
  IF k < 1 THEN [name |-> s, version |-> Unknown]
  ELSE IF SplitsAt(s, k) THEN Split(s, k)
  ELSE ScanDown(s, k - 1)

parseApkPackage(s) == ScanDown(s, Len(s))

InitApk ==
  /\ CoreIdle
  /\ MoreIdle
  /\ DownloadIdle
  /\ PatchIdle
  /\ ScriptIdle
  /\ KernelIdle
  /\ line \in Lines
  /\ parsed = <<>>

\* name, version := parseApkPackage(line)
ParseCall ==
  /\ parsed = <<>>
  /\ parsed' = <<parseApkPackage(line)>>
  /\ UNCHANGED <<coreVars, moreVars, dlVars, patchVars, initVars, line, kernelVars>>

NextApk ==
  \/ ParseCall

SpecApk == InitApk /\ [][NextApk]_vars

---------------------------------------------------------------------------
(* generateInitramfs called on its own, on any small modules directory *)

MaxEntries == 3

\* the names an entry of lib/modules may have
ModuleNames == {<<"a">>, <<"l", "t">>, <<"l", "t", "s">>, <<"x", "l", "t", "s">>}

Lts == <<"l", "t", "s">>

\* strings.Contains(s, sub)
Contains(s, sub) ==
  \E k \in 0..(Len(s) - Len(sub)) : SubSeq(s, k + 1, k + Len(sub)) = sub

\* os.ReadDir returns the entries sorted by filename
RECURSIVE SortedByName(_)
SortedByName(S) ==
  IF S = {} THEN <<>>
  ELSE LET m == CHOOSE e \in S : \A f \in S : f = e \/ SeqLess(e.name, f.name)
       IN <<m>> \o SortedByName(S \ {m})

\* a directory: some names, each a directory or not
Listings ==
  {SortedByName({[name |-> n, isDir |-> (n \in D)] : n \in N}) :
     N \in {M \in SUBSET ModuleNames : Cardinality(M) <= MaxEntries},
     D \in SUBSET ModuleNames}

ReadDirResults ==
  {[err |-> TRUE, list |-> <<>>]} \cup {[err |-> FALSE, list |-> l] : l \in Listings}

\* the choice that takes the first entry whatever its name
KernelVersionFirst(list) == IF list = <<>> THEN <<>> ELSE list[1].name

\* the loop with its break, then the fallback to entries[0]; <<>> is ""
KernelVersion(list) ==
  LET lts == {k \in 1..Len(list) : list[k].isDir /\ Contains(list[k].name, Lts)}
  IN IF lts # {} THEN list[CHOOSE k \in lts : \A j \in lts : k <= j].name
     ELSE IF Len(list) > 0 THEN list[1].name
     ELSE <<>>

InitKernel ==
  /\ CoreIdle
  /\ MoreIdle
  /\ DownloadIdle
  /\ PatchIdle
  /\ ScriptIdle
  /\ ParseIdle
  /\ dirEntries \in ReadDirResults
  /\ generated = <<>>

\* r.generateInitramfs(); ok: chroot mkinitfs succeeds
GenerateCall ==
  /\ generated = <<>>
  /\ \E ok \in BOOLEAN :
       generated' =
         IF dirEntries.err
         THEN <<[ret |-> "reading modules directory", mkinitfs |-> <<>>]>>
         ELSE IF KernelVersion(dirEntries.list) = <<>>
         THEN <<[ret |-> "no kernel modules found", mkinitfs |-> <<>>]>>
         ELSE <<[ret |-> (IF ok THEN "nil" ELSE "mkinitfs"),
                 mkinitfs |-> <<KernelVersion(dirEntries.list)>>]>>
  /\ UNCHANGED <<coreVars, moreVars, dlVars, patchVars, initVars, apkVars, dirEntries>>

NextKernel ==
  \/ GenerateCall

SpecKernel == InitKernel /\ [][NextKernel]_vars

---------------------------------------------------------------------------
(* Build runs started side by side on one host, each with its own
   configuration: distrorun build a.yaml & distrorun build b.yaml *)

MaxBuilds == 2

\* the cfg.Name of the configurations
BuildNames == {"x", "y"}

\* filepath.Join of two clean paths, on characters
Join(a, b) == a \o <<"/">> \o b

\* filepath.Join(os.TempDir(), fmt.Sprintf("distrorun-%s", name))
WorkDirOf(name) ==
  Join(Chars[TempDir], <<"d", "i", "s", "t", "r", "o", "r", "u", "n", "-">> \o <<name>>)

\* filepath.Join(workDir, "rootfs")
RootfsPathOf(name) == Join(WorkDirOf(name), <<"r", "o", "o", "t", "f", "s">>)

\* the directories setupChrootMounts mounts on, in its order
ChrootDirs == <<"proc", "dev", "sys">>
DirChars ==
  ("proc" :> <<"p", "r", "o", "c">>) @@ ("dev" :> <<"d", "e", "v">>) @@
  ("sys" :> <<"s", "y", "s">>)

\* the mount point of an entry of runMounts
MountPath(e) == Join(RootfsPathOf(e.name), DirChars[e.dir])

\* the entries of the mount table that the Unmount of run r collects
TargetsOf(r, tbl) ==
  {k \in 1..Len(tbl) :
     SeqHasPrefix(MountPath(tbl[k]), RootfsPathOf(runName[r]) \o <<"/">>)}

RECURSIVE Keep(_, _, _)
Keep(tbl, gone, k) ==
  IF k > Len(tbl) THEN <<>>
  ELSE (IF k \in gone THEN <<>> ELSE <<tbl[k]>>) \o Keep(tbl, gone, k + 1)

\* what a run does to what another run made
Foreign(r, owners, what) ==
  {[by |-> r, of |-> q, what |-> what] : q \in owners \ {r}}

\* r.Unmount() in run r; gone: the mounts whose umount succeeds
RunUnmount(r, gone) ==
  /\ gone \subseteq TargetsOf(r, runMounts)
  /\ runMounts' = Keep(runMounts, gone, 1)

InitRuns ==
  /\ CoreIdle
  /\ FnIdle
  /\ ConfigIdle
  /\ UsersIdle
  /\ runName \in [1..MaxBuilds -> BuildNames]
  /\ rpc = [r \in 1..MaxBuilds |-> "start"]
  /\ runMounts = <<>>
  /\ runFiles = {}
  /\ acted = {}

runsFrame == <<coreVars, fnVars, configVars, usersVars, runName>>

\* rootfs.Bootstrap(cfg.Name) in run r: the directories are made and written
\* to; k: the mounts made before a stage fails (3: Bootstrap returns the
\* handle), and a failure ends the run in fatal()
RunBootstrap(r) ==
  /\ rpc[r] = "start"
  /\ \E k \in 0..Len(ChrootDirs) :
       /\ runMounts' = runMounts \o
            [j \in 1..k |-> [name |-> runName[r], dir |-> ChrootDirs[j], by |-> r]]
       /\ rpc' = [rpc EXCEPT ![r] = IF k = Len(ChrootDirs) THEN "built" ELSE "done"]
  /\ runFiles' = runFiles \cup {[name |-> runName[r], by |-> r]}
  /\ UNCHANGED <<runsFrame, acted>>

\* rfs.Unmount(); rfs.CleanupRootfs() in run r: the entries of rootPath/dev
\* are removed, whoever wrote them
RunClean(r) ==
  /\ rpc[r] = "built"
  /\ rpc' = [rpc EXCEPT ![r] = "cleaned"]
  /\ \E gone \in SUBSET TargetsOf(r, runMounts) :
       /\ RunUnmount(r, gone)
       /\ acted' = acted
            \cup Foreign(r, {runMounts[k].by : k \in gone}, "umount")
            \cup Foreign(r, {f.by : f \in {g \in runFiles : g.name = runName[r]}},
                         "remove")
  /\ UNCHANGED <<runsFrame, runFiles>>

\* the deferred rfs.Cleanup(true) in run r: Unmount, then os.RemoveAll(WorkDir)
RunCleanup(r) ==
  /\ rpc[r] = "cleaned"
  /\ rpc' = [rpc EXCEPT ![r] = "done"]
  /\ \E gone \in SUBSET TargetsOf(r, runMounts) :
       /\ RunUnmount(r, gone)
       /\ acted' = acted
            \cup Foreign(r, {runMounts[k].by : k \in gone}, "umount")
            \cup Foreign(r, {f.by : f \in {g \in runFiles : g.name = runName[r]}},
                         "remove")
  /\ runFiles' = {f \in runFiles : f.name # runName[r]}
  /\ UNCHANGED runsFrame

NextRuns ==
  \/ \E r \in 1..MaxBuilds : RunBootstrap(r)
  \/ \E r \in 1..MaxBuilds : RunClean(r)
  \/ \E r \in 1..MaxBuilds : RunCleanup(r)

SpecRuns == InitRuns /\ [][NextRuns]_vars

---------------------------------------------------------------------------
(* LoadConfig called on its own, on any small configuration file *)

MaxConfigUsers == 2

\* the values the fields of the file may hold; "" is a field left out
Versions == {"", "1.0"}
ConfigNames == {"", "test"}
Bases == {"", "alpine", "Alpine", "fedora"}
ConfigUsers == [Name : {"", "root"}, Password : {"", "toor"}]

\* what yaml.Unmarshal fills in
ParsedConfigs ==
  [Version : Versions, Name : ConfigNames, Base : Bases,
   Users : UNION {[1..n -> ConfigUsers] : n \in 0..MaxConfigUsers}]

\* the file at path; at: the step of LoadConfig that fails on it ("ok": it
\* reads and parses)
ConfigFiles ==
  {[at |-> a, cfg |-> <<>>] : a \in {"read", "parse"}}
  \cup {[at |-> "ok", cfg |-> <<c>>] : c \in ParsedConfigs}

\* one line of the error; at: the index in users[%d], 0 elsewhere
Msg(text, at) == [text |-> text, at |-> at]

When(cond, msg) == IF cond THEN <<msg>> ELSE <<>>

\* the loop over the users without its check of the password
RECURSIVE UserNameErrs(_, _)
UserNameErrs(users, k) ==
  IF k > Len(users) THEN <<>>
  ELSE When(users[k].Name = "", Msg("users[%d]: \"name\" is required", k - 1))
       \o UserNameErrs(users, k + 1)

\* for i, u := range c.Users { ... }; k: the 1-based position
RECURSIVE UserErrs(_, _)
UserErrs(users, k) ==
  IF k > Len(users) THEN <<>>
  ELSE When(users[k].Name = "", Msg("users[%d]: \"name\" is required", k - 1))
       \o When(users[k].Password = "",
               Msg("users[%d]: \"password\" is required", k - 1))
       \o UserErrs(users, k + 1)

\* the checks of the distro base
BaseErrs(base) ==
  IF base = "" THEN <<Msg("\"distro.base\" is required", 0)>>
  ELSE IF base # "alpine" THEN <<Msg("unsupported distro base", 0)>>
  ELSE <<>>

\* c.Validate(): the lines collected in errs; <<>> is the nil error
ValidateAll(c) ==
  When(c.Version = "", Msg("\"version\" is required", 0))
  \o When(c.Name = "", Msg("\"name\" is required", 0))
  \o BaseErrs(c.Base)
  \o When(Len(c.Users) = 0, Msg("at least one user must be defined in \"users\"", 0))
  \o UserErrs(c.Users, 1)

\* a validation that returns at its first violation
ValidateFirst(c) ==
  IF ValidateAll(c) = <<>> THEN <<>> ELSE <<Head(ValidateAll(c))>>

Validate(c) == ValidateAll(c)

\* LoadConfig(path): (*Config, error), each <<>> when nil
LoadConfigResult(file) ==
  IF file.at = "read" THEN [cfg |-> <<>>, err |-> <<Msg("reading config file", 0)>>]
  ELSE IF file.at = "parse" THEN [cfg |-> <<>>, err |-> <<Msg("parsing YAML", 0)>>]
  ELSE IF Validate(file.cfg[1]) # <<>>
  THEN [cfg |-> <<>>, err |-> Validate(file.cfg[1])]
  ELSE [cfg |-> file.cfg, err |-> <<>>]

InitConfig ==
  /\ CoreIdle
  /\ FnIdle
  /\ RunsIdle
  /\ UsersIdle
  /\ configFile \in ConfigFiles
  /\ loaded = <<>>

\* cfg, err := config.LoadConfig(configPath)
LoadConfigCall ==
  /\ loaded = <<>>
  /\ loaded' = <<LoadConfigResult(configFile)>>
  /\ UNCHANGED <<coreVars, fnVars, runsVars, usersVars, configFile>>

NextConfig ==
  \/ LoadConfigCall

SpecConfig == InitConfig /\ [][NextConfig]_vars

---------------------------------------------------------------------------
(* rootfs.SetupUsers on its own *)

MaxUserList == 3

SetupNames == {"root", "u", "v"}

\* SetupUsers takes any list, the empty one included
SetupLists == UNION {[1..n -> SetupNames] : n \in 0..MaxUserList}

\* fmt.Errorf("creating user %s: %w", u.Name, err) and
\* fmt.Errorf("setting password for %s: %w", u.Name, err)
SetupUsersError(c) ==
  [text |-> (IF c.cmd = "adduser" THEN "creating user" ELSE "setting password for"),
   user |-> c.arg]

\* the commands issued and the error returned when command f fails (0: none):
\* the loop returns at the first command whose Run() fails
SetupUsersResult(users, f) ==
  LET all == UserCmds(users)
  IN IF f = 0
     THEN [cmds |-> all, err |-> <<>>]
     ELSE [cmds |-> SubSeq(all, 1, f), err |-> <<SetupUsersError(all[f])>>]

InitUsers ==
  /\ CoreIdle
  /\ FnIdle
  /\ RunsIdle
  /\ ConfigIdle
  /\ userList \in SetupLists
  /\ setup = <<>>

\* err := rfs.SetupUsers(users)
SetupUsersCall ==
  /\ setup = <<>>
  /\ \E f \in 0..Len(UserCmds(userList)) :
       setup' = <<SetupUsersResult(userList, f)>>
  /\ UNCHANGED <<coreVars, fnVars, runsVars, configVars, userList>>

NextUsers ==
  \/ SetupUsersCall

SpecUsers == InitUsers /\ [][NextUsers]_vars

---------------------------------------------------------------------------
(* Properties *)

\* c lies strictly below p: c starts with p + "/"
Descends(c, p) == SeqHasPrefix(Chars[c], Chars[p] \o <<"/">>)

\* how often x occurs in seq
Count(seq, x) == Cardinality({i \in 1..Len(seq) : seq[i] = x})

\* the mount points of the umount commands a call of Unmount issued
Issued(call) == [i \in 1..Len(call.attempts) |-> call.attempts[i].mp]

UmountCallIds == 1..Len(umountCalls)

\* C1: in every execution of runBuild, CleanupRootfs starts deleting the
\* entries under rootPath/dev only after a call of Unmount on the same Rootfs
\* has returned; it never runs before, or without, a preceding Unmount.
C1_CleanupOnlyAfterUnmount ==
  /\ \A i \in 1..Len(cleanCalls) : cleanCalls[i].unmountsDone >= 1
  /\ \A i \in 1..Len(steps) :
       steps[i].name = "CleanupRootfs" =>
         \E j \in 1..(i - 1) : steps[j].name = "Unmount"

\* CleanupRootfs has deleted an entry, after an Unmount that issued umounts
C1_Witness ==
  /\ cleanCalls # <<>>
  /\ cleanCalls[1].removed # {}
  /\ umountCalls # <<>>
  /\ umountCalls[1].attempts # <<>>

\* C2: CleanupRootfs called while rootPath/dev is still a bind mount of the
\* host's /dev is either rejected with an error or leaves every host path
\* outside rootPath untouched.
C2_CleanupGuardsBoundDev ==
  \A i \in 1..Len(cleanCalls) :
    cleanCalls[i].devBound =>
      \/ cleanCalls[i].err
      \/ cleanCalls[i].hostAfter = cleanCalls[i].hostBefore

\* C3: whenever Unmount issues umounts for a mount point P and a descendant C
\* of P, it issues the umount of C before the umount of P.
C3_ChildBeforeParent ==
  \A k \in UmountCallIds :
    \A i, j \in 1..Len(umountCalls[k].attempts) :
      Descends(umountCalls[k].attempts[i].mp, umountCalls[k].attempts[j].mp)
        => i < j

\* a call that unmounted rootPath/a/b and then rootPath/a
C3_Witness ==
  \E k \in UmountCallIds :
    \E i, j \in 1..Len(umountCalls[k].attempts) :
      /\ umountCalls[k].attempts[i].mp = PathAB
      /\ umountCalls[k].attempts[j].mp = PathA
      /\ umountCalls[k].attempts[i].ok
      /\ umountCalls[k].attempts[j].ok

\* the mount table of the call holds, under rootPath, exactly a, a/b and c
TableIsABC(call) ==
  /\ call.read
  /\ {call.table[i] : i \in {j \in 1..Len(call.table) :
                               Descends(call.table[j], Path)}}
       = {PathA, PathAB, PathC}
  /\ Len(call.attempts) = 3

Consecutive(k) ==
  /\ k + 1 \in UmountCallIds
  /\ umountCalls[k + 1].table = umountCalls[k].after

NoneUnderPath(tbl) == \A i \in 1..Len(tbl) : ~Descends(tbl[i], Path)

CleanCall(call) ==
  /\ call.read
  /\ \A i \in 1..Len(call.attempts) : call.attempts[i].ok

C6_BestEffort ==
  /\ \A k \in UmountCallIds :
       umountCalls[k].read =>
         \A i \in 1..Len(umountCalls[k].table) :
           Descends(umountCalls[k].table[i], Path) =>
             Count(Issued(umountCalls[k]), umountCalls[k].table[i])
               = Count(umountCalls[k].table, umountCalls[k].table[i])
  /\ \A i \in 1..Len(steps) :
       steps[i].name \in {"Unmount", "Cleanup"} => steps[i].ok
  /\ (steps # <<>> /\ steps[Len(steps)].name = "Unmount")
       => pc \notin {"exited", "done"}

\* an umount failed and a later one of the same call was still attempted
C6_Witness ==
  \E k \in UmountCallIds :
    \E i, j \in 1..Len(umountCalls[k].attempts) :
      /\ i < j
      /\ ~umountCalls[k].attempts[i].ok
      /\ umountCalls[k].attempts[j].ok

\* C7: Unmount only issues umount for entries of the live mount table whose
\* mount point is a strict descendant of rootPath: never for rootPath itself,
\* an ancestor of it, or a path that only shares a string prefix with it; the
\* targets are those of the mount table as it is at that call.
C7_OnlyDescendantsOfLiveTable ==
  \A k \in UmountCallIds :
    \A i \in 1..Len(umountCalls[k].attempts) :
      LET mp == umountCalls[k].attempts[i].mp
      IN /\ Descends(mp, Path)
         /\ mp \notin {Path, WorkDir, TempDir, RootMount, SiblingDev}
         /\ Count(Issued(umountCalls[k]), mp) = Count(umountCalls[k].table, mp)

\* a call that unmounted something while the table also held rootPath itself
\* or the prefix-sharing sibling
C7_Witness ==
  \E k \in UmountCallIds :
    /\ umountCalls[k].attempts # <<>>
    /\ \E i, j \in 1..Len(umountCalls[k].table) :
         /\ umountCalls[k].table[i] = Path
         /\ umountCalls[k].table[j] = SiblingDev

\* the stages of Bootstrap: download, extract, establish mounts, copy DNS
\* config, install base system, write mkinitfs config, generate initramfs,
\* patch initramfs
PipelineStages ==
  <<"downloadMinirootfs", "extractTarball", "setupChrootMounts", "copyResolv",
    "installBaseSystem", "configureMkinitfs", "generateInitramfs",
    "PatchInitramfs">>

\* C8: Bootstrap is a strictly ordered fail-fast pipeline: the stages run are
\* a prefix of the eight stages, each at most once, a stage runs only if
\* every earlier one succeeded, and when a stage fails Bootstrap returns an
\* error and no Rootfs handle.
C8_BootstrapFailFast ==
  /\ Len(stages) <= Len(PipelineStages)
  /\ \A i \in 1..Len(stages) : stages[i].name = PipelineStages[i]
  /\ \A i \in 1..(Len(stages) - 1) : stages[i].ok
  /\ (stages # <<>> /\ ~stages[Len(stages)].ok) =>
       /\ rfs = "nil"
       /\ pc = "exited"
       /\ failed = "Bootstrap"
       /\ steps[Len(steps)] = [name |-> "Bootstrap", ok |-> FALSE]
  /\ rfs = "handle" =>
       /\ Len(stages) = Len(PipelineStages)
       /\ \A i \in 1..Len(stages) : stages[i].ok

\* Bootstrap failed in a stage after the mounts were made
C8_Witness ==
  /\ Len(stages) = 5
  /\ ~stages[5].ok
  /\ pc = "exited"
  /\ rfs = "nil"

IsInstall(c) == c.cmd \in {"apk update", "apk add"}

ChrootMountsMade ==
  /\ \E i \in 1..Len(stages) : stages[i] = [name |-> "setupChrootMounts", ok |-> TRUE]
  /\ \A i \in 1..Len(ChrootTargets) : IsMounted(mounts, ChrootTargets[i])

\* C9: in a build run no package installation command (the chroot apk update
\* and apk add of installBaseSystem, the apk add of InstallPackages) is run
\* before setupChrootMounts has completed successfully with proc, dev and sys
\* mounted under rootPath.
C9_InstallOnlyWithMounts ==
  [][(\E i \in (Len(cmds) + 1)..Len(cmds') : IsInstall(cmds'[i]))
       => ChrootMountsMade]_vars

\* the base system and the user packages have both been installed
C9_Witness ==
  /\ \E i \in 1..Len(cmds) : cmds[i] = Cmd("apk add", "base")
  /\ \E i \in 1..Len(cmds) : cmds[i] = Cmd("apk add", "user")

\* the calls iso.Build depends on: the SBOM only when enabled,
\* EnableServices only when the configuration names services
Required(c) ==
  {"LoadConfig", "CheckHostDeps", "Bootstrap", "InstallPackages", "SetupUsers",
   "Setup"}
  \cup (IF c.servicesNil THEN {} ELSE {"EnableServices"})
  \cup (IF SBOMEnabled(c) THEN {"Generate"} ELSE {})

\* C10: the build is all-or-nothing: iso.Build is invoked only if config
\* loading, the host dependency check, Bootstrap, InstallPackages, SetupUsers,
\* EnableServices, SBOM generation (when enabled) and bootloader.Setup all
\* succeeded; the first failing step ends the run and no later step runs.
C10_AllOrNothing ==
  /\ \A i \in 1..Len(steps) :
       steps[i].name = "Build" =>
         \A r \in Required(cfg) :
           \E j \in 1..(i - 1) : steps[j] = [name |-> r, ok |-> TRUE]
  /\ \A i \in 1..(Len(steps) - 1) : steps[i].ok
  /\ (steps # <<>> /\ ~steps[Len(steps)].ok) =>
       /\ pc = "exited"
       /\ failed = steps[Len(steps)].name
  /\ pc = "exited" => ~(ENABLED Next)

\* iso.Build has run for a configuration with services and an SBOM
C10_Witness ==
  /\ \E i \in 1..Len(steps) : steps[i] = [name |-> "Build", ok |-> TRUE]
  /\ ~cfg.servicesNil
  /\ SBOMEnabled(cfg)

---------------------------------------------------------------------------
(* downloadMinirootfs *)

\* the index was obtained and parsed
IndexFetched == index.at = "ok"

Matches == {i \in 1..Len(index.releases) :
              index.releases[i].Flavor = "alpine-minirootfs"}

\* the first record of the index whose flavor is alpine-minirootfs
FirstMatch == index.releases[CHOOSE i \in Matches : \A j \in Matches : i <= j]

TarballRequests == SubSeq(requests, 2, Len(requests))

\* C11: once downloadMinirootfs has returned: when the index was fetched and
\* holds a record of flavor "alpine-minirootfs", the tarball was requested
\* from baseURL + "/" + file of the first such record; when the index was not
\* fetched or holds no such record, the call failed and requested no tarball.
C11_RequestsFirstMatch ==
  dlpc = "returned" =>
    IF IndexFetched /\ Matches # {}
    THEN TarballRequests = <<TarballURL(FirstMatch.File)>>
    ELSE dlRet # "nil" /\ TarballRequests = <<>>

\* C11 (amended): as C11, but a first matching record whose file field is
\* empty counts as no record: the call fails with "entry not found" and
\* requests no tarball, whatever records follow it.
C11_RequestsFirstMatchWithFile ==
  dlpc = "returned" =>
    IF IndexFetched /\ Matches # {} /\ FirstMatch.File # ""
    THEN TarballRequests = <<TarballURL(FirstMatch.File)>>
    ELSE dlRet # "nil" /\ TarballRequests = <<>>

\* two matching records with different files: the first one was requested
C11_Witness ==
  /\ dlpc = "returned"
  /\ IndexFetched
  /\ Cardinality(Matches) = 2
  /\ index.releases[1].File = "minirootfs-3.19.tar.gz"
  /\ index.releases[2].File = "standard-3.19.iso"
  /\ requests = <<ReleasesURL, TarballURL("minirootfs-3.19.tar.gz")>>
  /\ dlRet = "nil"

---------------------------------------------------------------------------
(* PatchInitramfs *)

PatchRuns == 1..Len(patched)

\* the entries of an archive other than the one for its root directory
EntrySet(entries) == {entries[i] : i \in {j \in 1..Len(entries) : entries[j].path # "."}}

Executable(mode) == mode \in {"0755", "0777"}

\* C12: whenever PatchInitramfs returns success, on a gzip-compressed or an
\* uncompressed input, the file at the initramfs path is a gzip-compressed
\* archive (a finished gzip stream).
C12_SuccessLeavesGzip ==
  \A k \in PatchRuns :
    patched[k].ret = "nil" =>
      /\ patched[k].file.form = "gzip"
      /\ patched[k].file.complete

\* C13: after a PatchInitramfs in which no step failed, the entries of the
\* output (the root directory's own entry aside) are those of the input plus
\* 'init'; every entry but 'init' is as in the input, and 'init' is a file
\* holding customInit with an executable mode.
C13_RoundTrip ==
  \A k \in PatchRuns :
    patched[k].at = "ok" =>
      LET in == EntrySet(initramfs.entries)
          out == EntrySet(patched[k].file.entries)
      IN /\ {e.path : e \in out} = {e.path : e \in in} \cup {"init"}
         /\ \A e \in out : e.path # "init" => e \in in
         /\ \A e \in out : e.path = "init" =>
              /\ e.kind = "file"
              /\ e.data = "customInit"
              /\ Executable(e.mode)

\* C14: PatchInitramfs returns an error whenever one of its steps failed,
\* finishing and closing the compressed output included.
C14_EveryFailureReturned ==
  \A k \in PatchRuns : patched[k].at # "ok" => patched[k].ret # "nil"

\* C15: two runs of PatchInitramfs on identical inputs in which no step
\* failed leave archives with the same sequence of entries.
C15_SameOrder ==
  \A k, l \in PatchRuns :
    patched[k].at = "ok" /\ patched[l].at = "ok" =>
      patched[k].file.entries = patched[l].file.entries

---------------------------------------------------------------------------
(* The init script *)

\* the states of the boot sequence, in the order the specification gives
BootStates ==
  <<"InstallToolchain", "MountVirtualFS", "LoadDrivers",
    "WaitForOpticalDevice", "MountOpticalMedia", "LocateSquashImage",
    "MountSquashReadOnly", "CreateWritableOverlay", "MountOverlayAsNewRoot",
    "MigrateVirtualMounts", "SwitchRoot">>

Ended == ipc \in {"shell", "switched"}

\* C16: the steps the init script has run are always a prefix of the eleven
\* boot states in order; when it has ended it has either run SwitchRoot or
\* is the recovery shell, never both; and SwitchRoot is run only when
\* /dev/sr0 was found and rootfs.squashfs was found on the mounted disc.
C16_LinearStateMachine ==
  /\ Len(trace) <= Len(BootStates)
  /\ trace = SubSeq(BootStates, 1, Len(trace))
  /\ Ended => ((ipc = "switched") <=> (Count(trace, "SwitchRoot") = 1))
  /\ Ended => ((ipc = "shell") <=> (Count(trace, "SwitchRoot") = 0))
  /\ Count(trace, "SwitchRoot") > 0 => sr0 /\ cdMounted /\ media

\* the whole sequence was run although commands on the way failed
C16_Witness ==
  /\ ipc = "switched"
  /\ trace = BootStates
  /\ failures = {"LoadDrivers", "MountSquashReadOnly"}

\* the script gave up waiting for the drive
AbortedInWait == ipc = "shell" /\ Count(trace, "MountOpticalMedia") = 0

\* C17: the wait for /dev/sr0 sleeps at most 10 times and never while the
\* device is present; the script drops to the recovery shell from the wait
\* exactly when the device is still absent after the 10th sleep, and then
\* the disc was never mounted; no step is run twice; and the script always
\* ends.
C17_BoundedWait ==
  /\ [](sleeps <= PollLimit)
  /\ [][sr0 => sleeps' = sleeps]_vars
  /\ [](AbortedInWait => sleeps = PollLimit /\ ~sr0 /\ ~cdMounted)
  /\ []((ipc = "MountOpticalMedia" \/ Count(trace, "MountOpticalMedia") > 0)
          => sr0)
  /\ [](\A k \in 1..Len(BootStates) : Count(trace, BootStates[k]) <= 1)
  /\ <>Ended

\* ten sleeps, no drive: the recovery shell
C17_Witness ==
  /\ AbortedInWait
  /\ sleeps = PollLimit
  /\ trace = SubSeq(BootStates, 1, 4)

---------------------------------------------------------------------------
(* parseApkPackage *)

Digits == {"0", "1", "2", "3", "4", "5", "6", "7", "8", "9"}

\* the positions of line holding a hyphen immediately followed by a digit
Hyphens == {k \in 1..(Len(line) - 1) : line[k] = "-" /\ line[k + 1] \in Digits}

\* C18: parseApkPackage splits the line at its last hyphen that a digit
\* follows: the name is what stands before it, the version what stands after
\* it, and name + "-" + version is the line; a line with no such hyphen comes
\* back whole with the version "unknown". busybox-1.36.1-r1 gives busybox and
\* 1.36.1-r1, no-version-here gives itself and "unknown".
C18_SplitsAtLastHyphenBeforeDigit ==
  parsed # <<>> =>
    LET r == parsed[1]
    IN /\ IF Hyphens = {}
          THEN r = [name |-> line, version |-> Unknown]
          ELSE LET h == CHOOSE k \in Hyphens : \A j \in Hyphens : j <= k
               IN /\ r.name = SubSeq(line, 1, h - 1)
                  /\ r.version = SubSeq(line, h + 1, Len(line))
                  /\ r.name \o <<"-">> \o r.version = line
       /\ line = Busybox =>
            /\ r.name = <<"b", "u", "s", "y", "b", "o", "x">>
            /\ r.version = <<"1", ".", "3", "6", ".", "1", "-", "r", "1">>
       /\ line = NoVersionHere => r = [name |-> NoVersionHere, version |-> Unknown]

\* a line with two hyphens before digits was split at the second
C18_Witness ==
  /\ line = <<"-", "1", "-", "1">>
  /\ parsed = <<[name |-> <<"-", "1">>, version |-> <<"1">>]>>

---------------------------------------------------------------------------
(* generateInitramfs *)

\* the entries whose name contains "lts", directories or not
LtsNamed == {k \in 1..Len(dirEntries.list) : Contains(dirEntries.list[k].name, Lts)}
\* those of them that are directories
LtsDirs == {k \in LtsNamed : dirEntries.list[k].isDir}

First(S) == CHOOSE k \in S : \A j \in S : k <= j

\* C20: generateInitramfs takes the first entry of lib/modules whose name
\* contains "lts", the first entry when none does, fails without running
\* mkinitfs when there is no entry, and otherwise runs mkinitfs exactly once,
\* with the version taken.
C20_FirstLtsEntry ==
  (generated # <<>> /\ ~dirEntries.err) =>
    LET g == generated[1]
        l == dirEntries.list
    IN IF l = <<>> THEN g.ret # "nil" /\ g.mkinitfs = <<>>
       ELSE IF LtsNamed # {} THEN g.mkinitfs = <<l[First(LtsNamed)].name>>
       ELSE g.mkinitfs = <<l[1].name>>

\* C20 (amended): as C20, but only an entry that is a directory counts as
\* matching: the first directory whose name contains "lts" is taken, and the
\* first entry of any kind when no directory matches.
C20_FirstLtsDirectory ==
  (generated # <<>> /\ ~dirEntries.err) =>
    LET g == generated[1]
        l == dirEntries.list
    IN IF l = <<>> THEN g.ret # "nil" /\ g.mkinitfs = <<>>
       ELSE IF LtsDirs # {} THEN g.mkinitfs = <<l[First(LtsDirs)].name>>
       ELSE g.mkinitfs = <<l[1].name>>

\* a file named lts, then a directory named xlts: the directory was taken
C20_Witness ==
  /\ generated # <<>>
  /\ ~dirEntries.err
  /\ Len(dirEntries.list) = 3
  /\ dirEntries.list[1].name = <<"a">>
  /\ dirEntries.list[2] = [name |-> Lts, isDir |-> FALSE]
  /\ dirEntries.list[3] = [name |-> <<"x", "l", "t", "s">>, isDir |-> TRUE]
  /\ generated[1].mkinitfs = <<<<"x", "l", "t", "s">>>>

---------------------------------------------------------------------------
(* The cleanup step of runBuild *)

\* what a listing of rootPath/dev shows: the host's /dev through a bind mount
\* that is still there, the directory's own entries otherwise
DevContents == IF IsMounted(mounts, DevPath) THEN hostDev ELSE rootDev

\* C19: once the cleanup step of runBuild (Unmount, then CleanupRootfs) has
\* returned, rootPath/dev holds no entry, whatever umount or removal failed.
C19_DevEmptyAfterCleanup ==
  (pc \in {"Setup", "Build"} /\ Len(cleanCalls) > 0) => DevContents = {}

---------------------------------------------------------------------------
(* Build runs side by side *)

\* run r holds a Rootfs handle
Holds(r) == rpc[r] \in {"built", "cleaned"}

\* C21: no two build runs hold a handle on the same rootPath (or working
\* directory) at the same time, and no run's Unmount, CleanupRootfs or
\* Cleanup unmounts a mount or removes files that another run made.
C21_ExclusiveRootPath ==
  /\ \A r, q \in DOMAIN rpc :
       (r # q /\ Holds(r) /\ Holds(q)) =>
         /\ RootfsPathOf(runName[r]) # RootfsPathOf(runName[q])
         /\ WorkDirOf(runName[r]) # WorkDirOf(runName[q])
  /\ acted = {}

---------------------------------------------------------------------------
(* LoadConfig and Validate *)

\* the file reads, parses and meets every constraint
WellFormed ==
  /\ configFile.at = "ok"
  /\ LET c == configFile.cfg[1]
     IN /\ c.Version # ""
        /\ c.Name # ""
        /\ c.Base = "alpine"
        /\ Len(c.Users) >= 1
        /\ \A k \in 1..Len(c.Users) :
             c.Users[k].Name # "" /\ c.Users[k].Password # ""

\* C22: LoadConfig returns a configuration and no error exactly when the
\* file parses and version and name are non-empty, distro.base is "alpine",
\* there is at least one user and every user has a name and a password; in
\* every other case it returns an error and no configuration.
C22_ConfigIffValid ==
  loaded # <<>> =>
    IF WellFormed
    THEN loaded[1].cfg = configFile.cfg /\ loaded[1].err = <<>>
    ELSE loaded[1].cfg = <<>> /\ loaded[1].err # <<>>

\* the configuration of the test TestLoadConfig_Valid was returned
C22_Witness ==
  /\ loaded # <<>>
  /\ loaded[1].err = <<>>
  /\ loaded[1].cfg =
       <<[Version |-> "1.0", Name |-> "test", Base |-> "alpine",
          Users |-> <<[Name |-> "root", Password |-> "toor"]>>]>>

Only(cond, msg) == IF cond THEN {msg} ELSE {}

\* the constraints a configuration violates, each as the line that reports it
Violated(c) ==
  Only(c.Version = "", Msg("\"version\" is required", 0))
  \cup Only(c.Name = "", Msg("\"name\" is required", 0))
  \cup Only(c.Base = "", Msg("\"distro.base\" is required", 0))
  \cup Only(c.Base \notin {"", "alpine"}, Msg("unsupported distro base", 0))
  \cup Only(c.Users = <<>>, Msg("at least one user must be defined in \"users\"", 0))
  \cup {Msg("users[%d]: \"name\" is required", k - 1) :
          k \in {j \in 1..Len(c.Users) : c.Users[j].Name = ""}}
  \cup {Msg("users[%d]: \"password\" is required", k - 1) :
          k \in {j \in 1..Len(c.Users) : c.Users[j].Password = ""}}

\* C23: the error of Validate mentions every constraint the configuration
\* violates, all of them and not only the first, and none that it meets;
\* each is mentioned once.
C23_AllViolationsReported ==
  (loaded # <<>> /\ configFile.at = "ok") =>
    LET err == loaded[1].err
    IN /\ {err[k] : k \in 1..Len(err)} = Violated(configFile.cfg[1])
       /\ Len(err) = Cardinality(Violated(configFile.cfg[1]))

\* the file of TestLoadConfig_MissingFields with a user that has neither name
\* nor password: five lines
C23_Witness ==
  /\ loaded # <<>>
  /\ configFile.at = "ok"
  /\ configFile.cfg[1].Base = "fedora"
  /\ Len(loaded[1].err) = 5

---------------------------------------------------------------------------
(* runBuild: packaging, cleanup and the ways a run ends *)

StepIds == 1..Len(steps)

\* C24: in every execution of runBuild, bootloader.Setup and iso.Build are
\* invoked only after both Unmount and CleanupRootfs have returned.
C24_PackagedAfterUnmountAndClean ==
  \A i \in StepIds :
    steps[i].name \in {"Setup", "Build"} =>
      /\ \E j \in 1..(i - 1) : steps[j].name = "Unmount"
      /\ \E j \in 1..(i - 1) : steps[j].name = "CleanupRootfs"
      /\ Len(umountCalls) >= 1
      /\ Len(cleanCalls) >= 1

\* the image was built, of a rootfs that Unmount had unmounted
C24_Witness ==
  /\ \E i \in StepIds : steps[i] = [name |-> "Build", ok |-> TRUE]
  /\ \E i \in StepIds : steps[i] = [name |-> "Setup", ok |-> TRUE]
  /\ cleanCalls # <<>>
  /\ ~cleanCalls[1].devBound

\* C25: whenever runBuild deletes the entries under rootPath/dev, no mount
\* is active on rootPath/dev, also when the umount of rootPath/dev failed or
\* the mount table could not be read.
C25_NoMountWhenDevCleared ==
  \A i \in 1..Len(cleanCalls) : ~cleanCalls[i].devBound

\* C26: when Cleanup(true) has removed the working directory (the run is
\* done), no mount was active under rootPath during the removal: none is
\* left after the Unmount that Cleanup made first.
C26_RemovalOnlyWhenUnmounted ==
  pc = "done" => MountPoints(mounts) = <<>>

\* the run has ended: runBuild returned or fatal() exited
RunEnded == pc \in {"done", "exited"}

\* setupChrootMounts has mounted at least one of proc, dev, sys (proc first)
MountedSome ==
  \/ \E i \in 1..Len(stages) : stages[i] = [name |-> "setupChrootMounts", ok |-> TRUE]
  \/ /\ \E i \in 1..Len(stages) :
          stages[i] = [name |-> "setupChrootMounts", ok |-> FALSE]
     /\ IsMounted(mounts, ProcPath)

\* C27: whenever setupChrootMounts has mounted something and the run has
\* ended, in whatever way, Unmount was executed before the process exited.
C27_UnmountBeforeExit ==
  (RunEnded /\ MountedSome) => Len(umountCalls) >= 1

SetupMountsSucceeded ==
  \E i \in 1..Len(stages) : stages[i] = [name |-> "setupChrootMounts", ok |-> TRUE]

\* C28: every command executed inside the chroot during a build run is
\* executed after setupChrootMounts has succeeded and before the first call
\* of Unmount: no command was added since any Unmount was called.
C28_ChrootCommandsBetween ==
  /\ cmds # <<>> => SetupMountsSucceeded
  /\ \A k \in UmountCallIds : umountCalls[k].ncmds = Len(cmds)

\* a run that issued every kind of chroot command and then unmounted twice
C28_Witness ==
  /\ pc = "done"
  /\ Len(umountCalls) = 2
  /\ \A c \in {"apk update", "apk add", "mkinitfs", "adduser", "chpasswd",
               "rc-update", "apk info"} :
       \E i \in 1..Len(cmds) : cmds[i].cmd = c

---------------------------------------------------------------------------
(* PatchInitramfs: a failed call *)

\* C29: whenever PatchInitramfs returns an error, the file at the initramfs
\* path is the original one, never a truncated or partly written file.
C29_ErrorLeavesOriginal ==
  \A k \in PatchRuns : patched[k].ret # "nil" => patched[k].file = initramfs

---------------------------------------------------------------------------
(* SetupUsers *)

\* the number of commands for the users before the k-th: two for each, one
\* for root
Off(k) ==
  2 * (k - 1) - Cardinality({j \in 1..(k - 1) : userList[j] = "root"})

\* C30: SetupUsers issues its commands in list order and stops at the first
\* failing one: for root only chpasswd, for any other user adduser and then
\* chpasswd; without an error every user was processed; with an error the
\* failing command is the last one issued and the error names its user.
C30_UsersInOrder ==
  \A s \in 1..Len(setup) :
    LET c == setup[s].cmds
        n == Len(userList)
    IN /\ Len(c) <= Off(n + 1)
       /\ \A k \in 1..n :
            LET u == userList[k]
            IN IF u = "root"
               THEN Off(k) + 1 <= Len(c) => c[Off(k) + 1] = Cmd("chpasswd", u)
               ELSE /\ Off(k) + 1 <= Len(c) => c[Off(k) + 1] = Cmd("adduser", u)
                    /\ Off(k) + 2 <= Len(c) => c[Off(k) + 2] = Cmd("chpasswd", u)
       /\ \A i \in 1..Len(c) : c[i] # Cmd("adduser", "root")
       /\ setup[s].err = <<>> => Len(c) = Off(n + 1)
       /\ setup[s].err # <<>> =>
            /\ c # <<>>
            /\ setup[s].err[1].user = c[Len(c)].arg
            /\ setup[s].err[1].text =
                 (IF c[Len(c)].cmd = "adduser" THEN "creating user"
                  ELSE "setting password for")

\* root first, then u whose account creation fails, then v: one chpasswd for
\* root, one adduser for u, nothing for v
C30_Witness ==
  /\ userList = <<"root", "u", "v">>
  /\ setup # <<>>
  /\ setup[1].cmds = <<Cmd("chpasswd", "root"), Cmd("adduser", "u")>>
  /\ setup[1].err = <<[text |-> "creating user", user |-> "u"]>>

====
